---- MODULE Spec2Model ----
(***************************************************************************)
(* The multi-file uploader of next-uploader-example, as it is printed in   *)
(* its final, per-file form (src/unnamed/part_001, lines 27-114): the      *)
(* React state of one FileUploader component, the XMLHttpRequests it has   *)
(* sent, and one action per handler or browser callback.                   *)
(*                                                                         *)
(* JavaScript runs each handler to completion on one event loop, so every  *)
(* handler is one atomic action; the callbacks of different requests       *)
(* interleave freely.  The handlers are modelled as the functions they     *)
(* are: none of them tests uploadSuccess, so none of the actions does.     *)
(***************************************************************************)
EXTENDS Integers, Sequences, FiniteSets, TLC

VARIABLES
    acceptedFileTypes,  \* prop: [null |-> BOOLEAN, items |-> sequence of types]
    maxFileSize,        \* prop: the size limit in MB
    fileProgress,       \* state: file name -> percent
    fileStatus,         \* state: file name -> 'Uploaded' or a message
    uploadError,        \* state: string or NULL
    uploadSuccess,      \* state: boolean
    xhrs,               \* the XMLHttpRequests sent so far, in send() order
    gen,                \* history: the number of resetUploader calls so far
    replaced,           \* history: a rejected selection has replaced fileStatus
                        \*          since the last resetUploader
    lastOp,             \* history: the handler or listener that ran last, with
                        \*          its input
    selectedFiles,      \* state of the single-bar component: the files accepted
    uploadProgress,     \* state of the single-bar component: the one percent
    calls               \* the calls of fileUploadHandler(files) of the
                        \* single-bar component: the local variables of
                        \* each and its place in the loop

\* The state only the earlier, single-bar component has
\* (src/components/FileUploader.tsx, lines 13-103).
variantVars == <<selectedFiles, uploadProgress, calls>>

vars == <<acceptedFileTypes, maxFileSize, fileProgress, fileStatus,
          uploadError, uploadSuccess, xhrs, gen, replaced, lastOp,
          selectedFiles, uploadProgress, calls>>

----------------------------------------------------------------------------
(* Bounds of the exploration *)

MaxSel == 2        \* files in one selection
MaxXhr == 2        \* requests sent in one run
MaxResets == 1     \* resetUploader calls in one run
BatchSize == 3     \* files of the one selection of SpecBatch
ProgressBatchSize == 2  \* files of the one selection of SpecProgress
SeqBatchSize == 2  \* files of a selection of SpecSeq
MaxCalls == 2      \* selections accepted in one run of SpecSeq

----------------------------------------------------------------------------
(* Values *)

NULL == "null"

MB == 1024 * 1024

\* The files a user can pick: name, size in bytes, content type.
Files ==
    { [name |-> "a.png", size |-> 1000,   type |-> "image/png"],
      [name |-> "b.png", size |-> MB,     type |-> "image/png"],
      [name |-> "c.gif", size |-> 1000,   type |-> "image/gif"],
      [name |-> "x.png", size |-> 6 * MB, type |-> "image/png"],
      [name |-> "y.gif", size |-> 6 * MB, type |-> "image/gif"] }

\* event.target.files: the lists of at most n distinct files (a FileList
\* never holds the same File twice).
RECURSIVE FileLists(_)
FileLists(n) ==
    IF n = 0 THEN {<<>>}
    ELSE LET shorter == FileLists(n - 1)
             longest == {s \in shorter : Len(s) = n - 1}
         IN  shorter \cup
             UNION { {Append(s, f) : f \in Files \ {s[i] : i \in 1..Len(s)}} :
                     s \in longest }

\* The props the component is constructed with.
AcceptedChoices ==
    { [null |-> TRUE,  items |-> <<>>],
      [null |-> FALSE, items |-> <<>>],
      [null |-> FALSE, items |-> <<"image/png", "image/jpeg">>] }

MaxFileSizeChoices == {1, 5}

\* The final status codes of a request; 0 is a network fault (no response).
Statuses == {200, 201, 500, 0}

\* The upload progress events a request can deliver.
ProgressEvents ==
    { [lengthComputable |-> TRUE,  loaded |-> 23,  total |-> 40],
      [lengthComputable |-> TRUE,  loaded |-> 50,  total |-> 200],
      [lengthComputable |-> TRUE,  loaded |-> 150, total |-> 200],
      [lengthComputable |-> TRUE,  loaded |-> 200, total |-> 200],
      [lengthComputable |-> FALSE, loaded |-> 50,  total |-> 0] }

\* The events the full life cycle is explored with.
FewProgressEvents ==
    { e \in ProgressEvents : ~e.lengthComputable \/ e.loaded = 50 }

StatusText(status) ==
    CASE status = 200 -> "OK"
      [] status = 201 -> "Created"
      [] status = 500 -> "Internal Server Error"
      [] OTHER -> ""

----------------------------------------------------------------------------
(* JavaScript helpers *)

\* a truthiness test of string[] | null | undefined: every array is truthy
Truthy(arr) == ~arr.null

\* Array.prototype.includes
includes(arr, v) == \E i \in 1..Len(arr) : arr[i] = v

\* Array.prototype.join
RECURSIVE join(_, _)
join(arr, sep) ==
    IF Len(arr) = 0 THEN ""
    ELSE IF Len(arr) = 1 THEN arr[1]
    ELSE arr[1] \o sep \o join(Tail(arr), sep)

\* { ...prev, [key]: value }
Spread(prev, key, value) ==
    [k \in DOMAIN prev \cup {key} |-> IF k = key THEN value ELSE prev[k]]

\* {}
EmptyObject == [k \in {} |-> NULL]

----------------------------------------------------------------------------
(* JavaScript numbers: IEEE 754 binary64, round to nearest, ties to even.   *)
(* A positive number is [sig |-> s, exp |-> e] with 2^52 <= s < 2^53: the   *)
(* value s * 2^(e - 52).  Zero is [sig |-> <<>>, exp |-> 0].  A significand *)
(* is a natural number too large for one machine word, so it is a sequence  *)
(* of digits in base Base, the least significant first, without leading     *)
(* zeros.  The operands here are small positive integers, so there is       *)
(* neither overflow nor underflow.                                          *)

Precision == 53

DigitBits == 12

Base == 2 ^ DigitBits

\* the digits of the natural number n
RECURSIVE BigFromNat(_)
BigFromNat(n) == IF n = 0 THEN <<>> ELSE <<n % Base>> \o BigFromNat(n \div Base)

\* the natural number of a few digits
RECURSIVE BigToNat(_)
BigToNat(x) == IF Len(x) = 0 THEN 0 ELSE x[1] + Base * BigToNat(Tail(x))

\* x without its leading zero digits
RECURSIVE BigTrim(_)
BigTrim(x) ==
    IF Len(x) > 0 /\ x[Len(x)] = 0 THEN BigTrim(SubSeq(x, 1, Len(x) - 1)) ELSE x

\* x * c + carry, for small natural numbers c and carry
RECURSIVE BigTimesSmall(_, _, _)
BigTimesSmall(x, c, carry) ==
    IF Len(x) = 0 THEN BigFromNat(carry)
    ELSE LET t == x[1] * c + carry
         IN  <<t % Base>> \o BigTimesSmall(Tail(x), c, t \div Base)

\* quotient and remainder of (rem * Base^Len(x) + x) by the small number d
RECURSIVE BigDivSmall(_, _, _)
BigDivSmall(x, d, rem) ==
    IF Len(x) = 0 THEN [quot |-> <<>>, rem |-> rem]
    ELSE LET t    == rem * Base + x[Len(x)]
             rest == BigDivSmall(SubSeq(x, 1, Len(x) - 1), d, t % d)
         IN  [quot |-> Append(rest.quot, t \div d), rem |-> rest.rem]

\* the number of binary digits of the natural number n
RECURSIVE BitLength(_)
BitLength(n) == IF n = 0 THEN 0 ELSE 1 + BitLength(n \div 2)

BigBitLength(x) ==
    IF Len(x) = 0 THEN 0 ELSE DigitBits * (Len(x) - 1) + BitLength(x[Len(x)])

\* floor(x / 2^s)
BigShiftRight(x, s) ==
    LET whole == s \div DigitBits
        part  == s % DigitBits
        y     == SubSeq(x, whole + 1, Len(x))
        above(i) == IF i < Len(y) THEN y[i + 1] ELSE 0
    IN  BigTrim([i \in 1..Len(y) |->
                    (y[i] \div (2 ^ part))
                        + (above(i) % (2 ^ part)) * (2 ^ (DigitBits - part))])

\* x mod 2^s, for s at most 2 * DigitBits
BigLowBits(x, s) == BigToNat(SubSeq(x, 1, 2)) % (2 ^ s)

BigIsOdd(x) == Len(x) > 0 /\ x[1] % 2 = 1

\* x + 1
RECURSIVE BigIncrement(_)
BigIncrement(x) ==
    IF Len(x) = 0 THEN <<1>>
    ELSE IF x[1] + 1 < Base THEN [x EXCEPT ![1] = x[1] + 1]
    ELSE <<0>> \o BigIncrement(Tail(x))

\* The number nearest to (x + fraction) * 2^e, where x has Precision binary
\* digits and cmp tells how the fraction compares with one half (-1, 0, 1).
RoundToNumber(x, e, cmp) ==
    LET up  == cmp > 0 \/ (cmp = 0 /\ BigIsOdd(x))
        sum == IF up THEN BigIncrement(x) ELSE x
    IN  IF BigBitLength(sum) > Precision
        THEN [sig |-> BigShiftRight(sum, 1), exp |-> e + Precision]
        ELSE [sig |-> sum, exp |-> e + Precision - 1]

Compare(m, n) == IF m < n THEN -1 ELSE IF m = n THEN 0 ELSE 1

\* the least k with a * 2^k >= b, for a > 0
RECURSIVE ShiftTo(_, _)
ShiftTo(a, b) == IF a >= b THEN 0 ELSE 1 + ShiftTo(2 * a, b)

\* a / b for integers 0 <= a < 2^18 and 0 < b, with b < 2^18 and a < 2^18 * b
NumberDivide(a, b) ==
    IF a = 0 THEN [sig |-> <<>>, exp |-> 0]
    ELSE LET k == ShiftTo(a, b)
             \* b * 2^j <= a * 2^k < 2 * b * 2^j
             j == IF a < b THEN 0 ELSE ShiftTo(b, a + 1) - 1
             \* a * 2^k * 2^(Precision - 1), so that the quotient has
             \* Precision binary digits
             n == BigTimesSmall(BigShiftRight(<<0, 0, 0, 0, 0, 1>>,
                                              5 * DigitBits - (Precision - 1)),
                                a * (2 ^ k), 0)
             d == BigDivSmall(n, b * (2 ^ j), 0)
         IN  RoundToNumber(BigTrim(d.quot), j - k - (Precision - 1),
                           Compare(2 * d.rem, b * (2 ^ j)))

\* x * c for a number x and an integer 0 < c < 2^18
NumberTimes(x, c) ==
    IF Len(x.sig) = 0 THEN x
    ELSE LET product == BigTimesSmall(x.sig, c, 0)
             s       == BigBitLength(product) - Precision
         IN  RoundToNumber(BigShiftRight(product, s),
                           x.exp - (Precision - 1) + s,
                           IF s = 0 THEN -1
                           ELSE Compare(BigLowBits(product, s), 2 ^ (s - 1)))

\* Math.round(x) for 0 <= x < 2^31: the nearest integer, a tie going up
MathRound(x) ==
    IF Len(x.sig) = 0 \/ x.exp < -1 THEN 0
    ELSE LET s == Precision - 1 - x.exp
         IN  BigToNat(BigShiftRight(x.sig, s))
                 + (BigToNat(BigShiftRight(x.sig, s - 1)) % 2)

----------------------------------------------------------------------------
(* The component *)

MAX_FILE_BYTES == maxFileSize * 1024 * 1024

isError == \E k \in DOMAIN fileStatus : fileStatus[k] # "Uploaded"

SizeMessage == "File size cannot exceed " \o ToString(maxFileSize) \o " MB"

TypeMessage ==
    "File type not accepted. Accepted types: " \o join(acceptedFileTypes.items, ", ")

TooLarge(file) == file.size > MAX_FILE_BYTES

TypeRefused(file) ==
    Truthy(acceptedFileTypes) /\ ~includes(acceptedFileTypes.items, file.type)

\* One turn of the loop as it would be with "else if" before the type test
ValidateOneElseIf(fileErrors, file) ==
    IF TooLarge(file) THEN Spread(fileErrors, file.name, SizeMessage)
    ELSE IF TypeRefused(file) THEN Spread(fileErrors, file.name, TypeMessage)
    ELSE fileErrors

\* One turn of the validation loop on fileErrors.
ValidateOne(fileErrors, file) ==
    LET afterSize == IF TooLarge(file)
                     THEN Spread(fileErrors, file.name, SizeMessage)
                     ELSE fileErrors
    IN  IF TypeRefused(file)
        THEN Spread(afterSize, file.name, TypeMessage)
        ELSE afterSize

\* The validation loop: fileErrors after the files of the selection.
RECURSIVE ValidateFiles(_)
ValidateFiles(files) ==
    IF Len(files) = 0 THEN EmptyObject
    ELSE ValidateOne(ValidateFiles(SubSeq(files, 1, Len(files) - 1)),
                     files[Len(files)])

\* isValid as it would be if the loop looked at the first file only
isValidFirstOnly(files) ==
    Len(files) = 0 \/ (~TooLarge(files[1]) /\ ~TypeRefused(files[1]))

\* The isValid flag after the loop.
isValid(files) ==
    \A i \in 1..Len(files) : ~TooLarge(files[i]) /\ ~TypeRefused(files[i])

\* fileProgress after files.forEach(file => setFileProgress(...)).
RECURSIVE InitProgress(_, _)
InitProgress(prev, files) ==
    IF Len(files) = 0 THEN prev
    ELSE InitProgress(Spread(prev, Head(files).name, 0), Tail(files))

\* Math.round((event.loaded / event.total) * 100)
Percent(loaded, total) == MathRound(NumberTimes(NumberDivide(loaded, total), 100))

\* Percent of each computable event, evaluated once.
PercentOf ==
    [e \in {v \in ProgressEvents : v.lengthComputable} |->
        Percent(e.loaded, e.total)]

FailedMessage(status) ==
    "An error occurred while uploading the file. Server response: "
        \o StatusText(status)

\* new XMLHttpRequest(); xhr.open(...); xhr.send(formData)
NewXhr(file) == [file |-> file, readyState |-> 1, status |-> 0, gen |-> gen]

\* The requests sent if the loop stopped after its first file
DispatchFirstOnly(files) == [i \in 1..(IF Len(files) = 0 THEN 0 ELSE 1) |-> NewXhr(files[i])]

\* The requests sent if the loop ran over the names, as over the keys of
\* fileProgress, and not over the files
DispatchByName(files) ==
    LET firsts == SelectSeq([i \in 1..Len(files) |-> [at |-> i, file |-> files[i]]],
                            LAMBDA e : \A j \in 1..(e.at - 1) :
                                          files[j].name # e.file.name)
    IN  [i \in 1..Len(firsts) |-> NewXhr(firsts[i].file)]

\* The requests files.forEach(file => fileUploadHandler(file)) sends.
Dispatch(files) == [i \in 1..Len(files) |-> NewXhr(files[i])]

Init ==
    /\ acceptedFileTypes \in AcceptedChoices
    /\ maxFileSize \in MaxFileSizeChoices
    /\ fileProgress = EmptyObject
    /\ fileStatus = EmptyObject
    /\ uploadError = NULL
    /\ uploadSuccess = FALSE
    /\ xhrs = <<>>
    /\ gen = 0
    /\ replaced = FALSE
    /\ lastOp = [op |-> "init"]
    /\ selectedFiles = <<>>
    /\ uploadProgress = 0
    /\ calls = <<>>

\* resetUploader without its setFileStatus({})
resetUploaderKeepsStatus ==
    /\ fileProgress' = EmptyObject
    /\ uploadError' = NULL
    /\ uploadSuccess' = FALSE
    /\ gen' = gen + 1
    /\ replaced' = FALSE
    /\ lastOp' = [op |-> "reset"]
    /\ UNCHANGED variantVars
    /\ UNCHANGED <<acceptedFileTypes, maxFileSize, xhrs, fileStatus>>

resetUploader ==
    /\ fileProgress' = EmptyObject
    /\ fileStatus' = EmptyObject
    /\ uploadError' = NULL
    /\ uploadSuccess' = FALSE
    /\ gen' = gen + 1
    /\ replaced' = FALSE
    /\ lastOp' = [op |-> "reset"]
    /\ UNCHANGED variantVars
    /\ UNCHANGED <<acceptedFileTypes, maxFileSize, xhrs>>

\* fileSelectedHandler as it would be with
\* setFileStatus(prev => ({ ...prev, ...fileErrors }))
fileSelectedHandlerMerges(files) ==
    /\ uploadError' = NULL
    /\ IF ~isValid(files)
       THEN /\ fileStatus' =
                   [k \in DOMAIN fileStatus \cup DOMAIN ValidateFiles(files) |->
                       IF k \in DOMAIN ValidateFiles(files)
                       THEN ValidateFiles(files)[k] ELSE fileStatus[k]]
            /\ replaced' = TRUE
            /\ UNCHANGED <<fileProgress, xhrs>>
       ELSE /\ fileProgress' = InitProgress(fileProgress, files)
            /\ xhrs' = xhrs \o Dispatch(files)
            /\ UNCHANGED <<fileStatus, replaced>>
    /\ lastOp' = [op |-> "select", files |-> files]
    /\ UNCHANGED variantVars
    /\ UNCHANGED <<acceptedFileTypes, maxFileSize, uploadSuccess, gen>>

fileSelectedHandler(files) ==
    /\ uploadError' = NULL
    /\ IF ~isValid(files)
       THEN /\ fileStatus' = ValidateFiles(files)
            /\ replaced' = TRUE
            /\ UNCHANGED <<fileProgress, xhrs>>
       ELSE /\ fileProgress' = InitProgress(fileProgress, files)
            /\ xhrs' = xhrs \o Dispatch(files)
            /\ UNCHANGED <<fileStatus, replaced>>
    /\ lastOp' = [op |-> "select", files |-> files]
    /\ UNCHANGED variantVars
    /\ UNCHANGED <<acceptedFileTypes, maxFileSize, uploadSuccess, gen>>

\* The listener of the "progress" event of xhr.upload, for request i.  The
\* upload is over once the response begins, so the events come at readyState 1.
onProgress(i, event) ==
    /\ xhrs[i].readyState = 1
    /\ IF event.lengthComputable
       THEN fileProgress' =
                Spread(fileProgress, xhrs[i].file.name, PercentOf[event])
       ELSE UNCHANGED fileProgress
    /\ lastOp' = [op |-> "progress", xhr |-> i, event |-> event]
    /\ UNCHANGED variantVars
    /\ UNCHANGED <<acceptedFileTypes, maxFileSize, fileStatus, uploadError,
                   uploadSuccess, xhrs, gen, replaced>>

\* The updates at readyState 4 if a failure replaced the status object
\* instead of merging into it
OnDoneReplaces(name, status) ==
    IF status = 200
    THEN /\ fileStatus' = Spread(fileStatus, name, "Uploaded")
         /\ uploadSuccess' = TRUE
    ELSE /\ fileStatus' = Spread(EmptyObject, name, FailedMessage(status))
         /\ UNCHANGED uploadSuccess

\* The updates at readyState 4 if a failure also withdrew the success flag
OnDoneWithdraws(name, status) ==
    IF status = 200
    THEN /\ fileStatus' = Spread(fileStatus, name, "Uploaded")
         /\ uploadSuccess' = TRUE
    ELSE /\ fileStatus' = Spread(fileStatus, name, FailedMessage(status))
         /\ uploadSuccess' = FALSE

\* The updates at readyState 4 if every 2xx status counted as a success
OnDoneAny2xx(name, status) ==
    IF status \in 200..299
    THEN /\ fileStatus' = Spread(fileStatus, name, "Uploaded")
         /\ uploadSuccess' = TRUE
    ELSE /\ fileStatus' = Spread(fileStatus, name, FailedMessage(status))
         /\ UNCHANGED uploadSuccess

\* The updates at readyState 4 without the setUploadSuccess(true)
OnDoneSilent(name, status) ==
    IF status = 200
    THEN /\ fileStatus' = Spread(fileStatus, name, "Uploaded")
         /\ UNCHANGED uploadSuccess
    ELSE /\ fileStatus' = Spread(fileStatus, name, FailedMessage(status))
         /\ UNCHANGED uploadSuccess

\* The state updates of the "readystatechange" listener at readyState 4.
OnDone(name, status) ==
    IF status = 200
    THEN /\ fileStatus' = Spread(fileStatus, name, "Uploaded")
         /\ uploadSuccess' = TRUE
    ELSE /\ fileStatus' = Spread(fileStatus, name, FailedMessage(status))
         /\ UNCHANGED uploadSuccess

\* The status codes request i can show when it reaches readyState rs: a
\* response ends at 4 after 2 (headers) and 3 (loading); a network fault
\* takes the request to 4 from any state, with status 0.
StatusesAt(i, rs) ==
    IF rs < 4 THEN {0}
    ELSE IF xhrs[i].readyState = 3 THEN Statuses
    ELSE {0}

\* The listener as it would be without its test of xhr.readyState
onReadyStateChangeUnguarded(i, rs, status) ==
    /\ xhrs[i].readyState < 4
    /\ rs \in {xhrs[i].readyState + 1, 4}
    /\ status \in StatusesAt(i, rs)
    /\ xhrs' = [xhrs EXCEPT ![i].readyState = rs, ![i].status = status]
    /\ OnDone(xhrs[i].file.name, status)
    /\ lastOp' = [op |-> "readystatechange", xhr |-> i]
    /\ UNCHANGED variantVars
    /\ UNCHANGED <<acceptedFileTypes, maxFileSize, fileProgress, uploadError,
                   gen, replaced>>

\* The listener of the "readystatechange" event of request i: the browser
\* has moved the request to readyState rs, with the given status.
onReadyStateChange(i, rs, status) ==
    /\ xhrs[i].readyState < 4
    /\ rs \in {xhrs[i].readyState + 1, 4}
    /\ status \in StatusesAt(i, rs)
    /\ xhrs' = [xhrs EXCEPT ![i].readyState = rs, ![i].status = status]
    /\ IF rs = 4
       THEN OnDone(xhrs[i].file.name, status)
       ELSE UNCHANGED <<fileStatus, uploadSuccess>>
    /\ lastOp' = [op |-> "readystatechange", xhr |-> i]
    /\ UNCHANGED variantVars
    /\ UNCHANGED <<acceptedFileTypes, maxFileSize, fileProgress, uploadError,
                   gen, replaced>>

----------------------------------------------------------------------------
(* The life cycle of the component: every handler at any time, within the  *)
(* bounds.                                                                  *)

\* the number of requests fileSelectedHandler(files) sends
Sends(files) == IF isValid(files) THEN Len(files) ELSE 0

Next ==
    \/ gen < MaxResets /\ resetUploader
    \/ \E files \in FileLists(MaxSel) :
           Len(xhrs) + Sends(files) <= MaxXhr /\ fileSelectedHandler(files)
    \/ \E i \in 1..Len(xhrs), event \in FewProgressEvents : onProgress(i, event)
    \/ \E i \in 1..Len(xhrs), rs \in 2..4, status \in Statuses :
           onReadyStateChange(i, rs, status)

Spec == Init /\ [][Next]_vars

\* the uploader as src/app/page.tsx mounts it: png and jpeg are accepted
InitTyped ==
    /\ Init
    /\ acceptedFileTypes = [null |-> FALSE, items |-> <<"image/png", "image/jpeg">>]

SpecTyped == InitTyped /\ [][Next]_vars

----------------------------------------------------------------------------
(* One batch: a single selection of at most n files and the callbacks of   *)
(* its requests, in every interleaving.                                     *)

NextBatch(n, events) ==
    \/ \E files \in FileLists(n) :
           Len(xhrs) = 0 /\ fileSelectedHandler(files)
    \/ \E i \in 1..Len(xhrs), event \in events : onProgress(i, event)
    \/ \E i \in 1..Len(xhrs), rs \in 2..4, status \in Statuses :
           onReadyStateChange(i, rs, status)

\* a batch of up to BatchSize files
SpecBatch == Init /\ [][NextBatch(BatchSize, FewProgressEvents)]_vars

\* a batch of up to ProgressBatchSize files, with every progress event
SpecProgress == Init /\ [][NextBatch(ProgressBatchSize, ProgressEvents)]_vars

----------------------------------------------------------------------------
(* Selections and callbacks without resetUploader, the browser delivering  *)
(* the readystatechange events of every request it has sent up to the last *)
(* one, at readyState 4.                                                    *)

NextDelivery ==
    \/ \E files \in FileLists(MaxSel) :
           Len(xhrs) + Sends(files) <= MaxXhr /\ fileSelectedHandler(files)
    \/ \E i \in 1..Len(xhrs), event \in FewProgressEvents : onProgress(i, event)
    \/ \E i \in 1..Len(xhrs), rs \in 2..4, status \in Statuses :
           onReadyStateChange(i, rs, status)

\* the browser moves request i on
Deliver(i) ==
    /\ i \in 1..Len(xhrs)
    /\ \E rs \in 2..4, status \in Statuses : onReadyStateChange(i, rs, status)

SpecDelivery ==
    /\ InitTyped
    /\ [][NextDelivery]_vars
    /\ \A i \in 1..MaxXhr : WF_vars(Deliver(i))

----------------------------------------------------------------------------
(* The life cycle with files picked from different folders, two of them    *)
(* under one name.                                                          *)

\* a.png twice, with different contents, and b.png
NamesakeFiles ==
    { [name |-> "a.png", size |-> 1000, type |-> "image/png"],
      [name |-> "a.png", size |-> 2000, type |-> "image/png"],
      [name |-> "b.png", size |-> MB,   type |-> "image/png"] }

\* the lists of at most n distinct elements of S
RECURSIVE ListsOf(_, _)
ListsOf(S, n) ==
    IF n = 0 THEN {<<>>}
    ELSE LET shorter == ListsOf(S, n - 1)
             longest == {s \in shorter : Len(s) = n - 1}
         IN  shorter \cup
             UNION { {Append(s, f) : f \in S \ {s[i] : i \in 1..Len(s)}} :
                     s \in longest }

NextNamesakes ==
    \/ gen < MaxResets /\ resetUploader
    \/ \E files \in ListsOf(NamesakeFiles, MaxSel) :
           Len(xhrs) + Sends(files) <= MaxXhr /\ fileSelectedHandler(files)
    \/ \E i \in 1..Len(xhrs), event \in FewProgressEvents : onProgress(i, event)
    \/ \E i \in 1..Len(xhrs), rs \in 2..4, status \in Statuses :
           onReadyStateChange(i, rs, status)

SpecNamesakes == Init /\ [][NextNamesakes]_vars

----------------------------------------------------------------------------
(* The earlier component (src/components/FileUploader.tsx, lines 13-103):  *)
(* one uploadProgress for the whole selection, one uploadError, and an     *)
(* async fileUploadHandler(files) that sends the files one after the       *)
(* other, awaiting each request.  Its definitions end in Seq.  A listener, *)
(* the load or error event that follows it and the continuation of the     *)
(* awaited promise run in one task of the event loop, so the end of a      *)
(* request is one action.                                                  *)

\* The validation loop with its break: the message of the first file that
\* fails, NULL if none does.
RECURSIVE FirstError(_)
FirstError(files) ==
    IF Len(files) = 0 THEN NULL
    ELSE IF TooLarge(Head(files)) THEN SizeMessage
    ELSE IF TypeRefused(Head(files)) THEN TypeMessage
    ELSE FirstError(Tail(files))

\* files.reduce((total, file) => total + file.size, 0)
RECURSIVE totalSize(_)
totalSize(files) ==
    IF Len(files) = 0 THEN 0 ELSE Head(files).size + totalSize(Tail(files))

\* new XMLHttpRequest() ... xhr.send(formData) in call c of
\* fileUploadHandler; loaded is the number of bytes of the file the browser
\* has sent.
NewRequest(file, c) ==
    [file |-> file, readyState |-> 1, status |-> 0, gen |-> gen, loaded |-> 0,
     call |-> c]

\* The loop of call t of fileUploadHandler at the top of its turn for
\* files[index]: it awaits the request of that file, or is over.
LoopAt(t, index) ==
    IF index <= Len(t.files)
    THEN [t EXCEPT !.state = "awaiting", !.index = index]
    ELSE [t EXCEPT !.state = "done", !.index = index]

\* The request call number c sends at the top of that turn
SendAt(t, index, c) ==
    IF index <= Len(t.files) THEN <<NewRequest(t.files[index], c)>> ELSE <<>>

\* The locals of a call of fileUploadHandler(files) before its loop
NewCall(files) ==
    [state |-> "new", files |-> files, index |-> 0,
     totalSize |-> totalSize(files), totalUploaded |-> 0]

\* fileUploadHandler(files) as it would be without its await: every file
\* is sent at once
fileUploadHandlerAllAtOnce(files) ==
    /\ calls' = Append(calls, LoopAt(NewCall(files), 1))
    /\ xhrs' = xhrs \o [k \in 1..Len(files) |-> NewRequest(files[k], Len(calls) + 1)]

\* fileUploadHandler(files) up to its first await
fileUploadHandlerSeq(files) ==
    /\ calls' = Append(calls, LoopAt(NewCall(files), 1))
    /\ xhrs' = xhrs \o SendAt(NewCall(files), 1, Len(calls) + 1)

fileSelectedHandlerSeq(files) ==
    /\ IF FirstError(files) # NULL
       THEN /\ uploadError' = FirstError(files)
            /\ UNCHANGED <<selectedFiles, calls, xhrs>>
       ELSE /\ uploadError' = NULL
            /\ selectedFiles' = files
            /\ fileUploadHandlerSeq(files)
    /\ lastOp' = [op |-> "select", files |-> files]
    /\ UNCHANGED <<acceptedFileTypes, maxFileSize, fileProgress, fileStatus,
                   uploadProgress, uploadSuccess, gen, replaced>>

resetUploaderSeq ==
    /\ uploadProgress' = 0
    /\ uploadError' = NULL
    /\ selectedFiles' = <<>>
    /\ uploadSuccess' = FALSE
    /\ gen' = gen + 1
    /\ lastOp' = [op |-> "reset"]
    /\ UNCHANGED <<acceptedFileTypes, maxFileSize, fileProgress, fileStatus,
                   calls, xhrs, replaced>>

\* The files picked for the earlier component: sizes in bytes.
FilesSeq ==
    { [name |-> "a.png", size |-> 200,    type |-> "image/png"],
      [name |-> "b.png", size |-> 400,    type |-> "image/png"],
      [name |-> "c.gif", size |-> 200,    type |-> "image/gif"] }

\* The ends of a request of the earlier component: the two answers of the
\* route, and a network fault.
StatusesSeq == {200, 500, 0}

\* The progress events request i can deliver next: event.loaded is the
\* number of bytes of the request sent so far, which grows, and event.total
\* the number to send, taken here as the size of the file.
EventsSeq(i) ==
    LET size == xhrs[i].file.size
    IN  { [lengthComputable |-> c, loaded |-> l, total |-> IF c THEN size ELSE 0] :
            c \in BOOLEAN,
            l \in {b \in {size \div 2, size} : b > xhrs[i].loaded} }

\* The events of request i: every one of them, or only the one of a
\* request whose upload is reported when it is over
EventsOfSeq(i, every) ==
    {e \in EventsSeq(i) : every \/ (e.lengthComputable /\ e.loaded = e.total)}

\* The listener of the "progress" event of xhr.upload, for request i.
onProgressSeq(i, event) ==
    /\ xhrs[i].readyState = 1
    /\ xhrs' = [xhrs EXCEPT ![i].loaded = event.loaded]
    /\ IF event.lengthComputable
       THEN LET c == xhrs[i].call
                uploaded == calls[c].totalUploaded + event.loaded
            IN  /\ calls' = [calls EXCEPT ![c].totalUploaded = uploaded]
                /\ uploadProgress' = Percent(uploaded, calls[c].totalSize)
       ELSE UNCHANGED <<calls, uploadProgress>>
    /\ lastOp' = [op |-> "progress", xhr |-> i, event |-> event]
    /\ UNCHANGED <<acceptedFileTypes, maxFileSize, fileProgress, fileStatus,
                   uploadError, uploadSuccess, selectedFiles, gen, replaced>>

UploadErrorMessage == "An error occurred while uploading the file."

\* The listener of "readystatechange" of request i at readyState 4, then
\* the events that end the request: with a response, load (xhr.onload =
\* resolve, and the loop of the call goes on); without one, error at
\* xhr.upload if the upload was not over, then error (xhr.onerror = reject,
\* and the loop is left).  At the readyStates before 4 the listener does
\* nothing, and a request of this component is kept at readyState 1 until
\* it ends.
onReadyStateChangeSeq(i, status, uploadOver) ==
    /\ xhrs[i].readyState = 1
    /\ status # 0 => uploadOver
    /\ LET ended == [xhrs EXCEPT ![i].readyState = 4, ![i].status = status]
           c == xhrs[i].call
           t == calls[c]
       IN  IF status = 200
           THEN /\ uploadSuccess' = TRUE
                /\ UNCHANGED uploadError
                /\ calls' = [calls EXCEPT ![c] = LoopAt(t, t.index + 1)]
                /\ xhrs' = ended \o SendAt(t, t.index + 1, c)
           ELSE IF status # 0
           THEN /\ uploadError' = FailedMessage(status)
                /\ UNCHANGED uploadSuccess
                /\ calls' = [calls EXCEPT ![c] = LoopAt(t, t.index + 1)]
                /\ xhrs' = ended \o SendAt(t, t.index + 1, c)
           ELSE /\ uploadError' = IF uploadOver THEN FailedMessage(status)
                                   ELSE UploadErrorMessage
                /\ UNCHANGED uploadSuccess
                /\ calls' = [calls EXCEPT ![c].state = "rejected"]
                /\ xhrs' = ended
    /\ lastOp' = [op |-> "readystatechange", xhr |-> i]
    /\ UNCHANGED <<acceptedFileTypes, maxFileSize, fileProgress, fileStatus,
                   uploadProgress, selectedFiles, gen, replaced>>

\* At most n selections are accepted in a run, each of at most SeqBatchSize
\* files; the file input is rendered while uploadSuccess is false and the
\* button of resetUploader while it is true.
NextSeq(n, every) ==
    \/ gen < MaxResets /\ uploadSuccess /\ resetUploaderSeq
    \/ \E files \in ListsOf(FilesSeq, SeqBatchSize) :
           /\ ~uploadSuccess
           /\ FirstError(files) = NULL => Len(calls) < n
           /\ fileSelectedHandlerSeq(files)
    \/ \E i \in 1..Len(xhrs) : \E event \in EventsOfSeq(i, every) : onProgressSeq(i, event)
    \/ \E i \in 1..Len(xhrs), status \in StatusesSeq, uploadOver \in BOOLEAN :
           onReadyStateChangeSeq(i, status, uploadOver)

\* up to MaxCalls calls of fileUploadHandler, which may overlap
SpecSeq == InitTyped /\ [][NextSeq(MaxCalls, FALSE)]_vars

\* one call of fileUploadHandler, with every progress event
SpecSeqProgress == InitTyped /\ [][NextSeq(1, TRUE)]_vars

----------------------------------------------------------------------------
(* The claims.  The predicates of this section are written from the        *)
(* statements they check, not from the handlers above.                      *)

maxFileBytes == maxFileSize * 1024 * 1024

ExceedsLimit(f) == f.size > maxFileBytes

NotAccepted(f) ==
    /\ ~acceptedFileTypes.null
    /\ f.type \notin {acceptedFileTypes.items[i] : i \in 1..Len(acceptedFileTypes.items)}

Invalid(f) == ExceedsLimit(f) \/ NotAccepted(f)

SomeInvalid(files) == \E i \in 1..Len(files) : Invalid(files[i])

SizeLimitText ==
    CASE maxFileSize = 1 -> "File size cannot exceed 1 MB"
      [] maxFileSize = 2 -> "File size cannot exceed 2 MB"
      [] maxFileSize = 5 -> "File size cannot exceed 5 MB"

AcceptedTypesText ==
    CASE acceptedFileTypes.items = <<>> ->
             "File type not accepted. Accepted types: "
      [] acceptedFileTypes.items = <<"image/png">> ->
             "File type not accepted. Accepted types: image/png"
      [] acceptedFileTypes.items = <<"image/png", "image/jpeg">> ->
             "File type not accepted. Accepted types: image/png, image/jpeg"

\* the validation messages of the predicates f fails
MessagesOf(f) ==
    {m \in {SizeLimitText} : ExceedsLimit(f)}
        \cup {m \in {AcceptedTypesText} : NotAccepted(f)}

InFlight(x) == x.readyState < 4

\* C1: a selection with an invalid file sends no request, for none of its
\* files, and leaves in fileStatus, under the name of every invalid file, a
\* validation message of that file.
BatchWideRejection ==
    [][(lastOp'.op = "select" /\ SomeInvalid(lastOp'.files)) =>
          /\ xhrs' = xhrs
          /\ \A i \in 1..Len(lastOp'.files) :
                 LET f == lastOp'.files[i]
                 IN  Invalid(f) =>
                         /\ f.name \in DOMAIN fileStatus'
                         /\ fileStatus'[f.name] \in MessagesOf(f)]_vars

\* C1, reached: a selection of a valid and an invalid file has been rejected
\* while an earlier request is in flight.
BatchWideRejectionWitness ==
    /\ lastOp.op = "select"
    /\ \E i, j \in 1..Len(lastOp.files) :
           Invalid(lastOp.files[i]) /\ ~Invalid(lastOp.files[j])
    /\ \E i \in 1..Len(xhrs) : InFlight(xhrs[i])
    /\ DOMAIN fileStatus # {}

Done(x) == x.readyState = 4

Failed(x) == Done(x) /\ x.status # 200

Succeeded(x) == Done(x) /\ x.status = 200

FailureText(status) ==
    CASE status = 500 ->
             "An error occurred while uploading the file. Server response: Internal Server Error"
      [] status = 201 ->
             "An error occurred while uploading the file. Server response: Created"
      [] status = 0 ->
             "An error occurred while uploading the file. Server response: "

\* the status a finished request leaves for its file
Outcome(x) == IF x.status = 200 THEN "Uploaded" ELSE FailureText(x.status)

\* The failed completion of request i, as a step: no request is added,
\* dropped or changed but i, no progress entry is touched, and no status
\* entry but that of i's file.
FailureIsIsolated ==
    (lastOp'.op = "readystatechange" /\ Failed(xhrs'[lastOp'.xhr])) =>
        LET i == lastOp'.xhr
            n == xhrs[i].file.name
        IN  /\ Len(xhrs') = Len(xhrs)
            /\ \A j \in 1..Len(xhrs) : j # i => xhrs'[j] = xhrs[j]
            /\ fileProgress' = fileProgress
            /\ DOMAIN fileStatus' = DOMAIN fileStatus \cup {n}
            /\ \A m \in DOMAIN fileStatus \ {n} : fileStatus'[m] = fileStatus[m]
            /\ uploadSuccess' = uploadSuccess

\* The end of a batch: every file has the status of its own request, and
\* the batch has succeeded if one request has.
BatchOutcome ==
    (Len(xhrs) > 0 /\ \A i \in 1..Len(xhrs) : Done(xhrs[i])) =>
        /\ \A i \in 1..Len(xhrs) :
               /\ xhrs[i].file.name \in DOMAIN fileStatus
               /\ fileStatus[xhrs[i].file.name] = Outcome(xhrs[i])
        /\ uploadSuccess = (\E i \in 1..Len(xhrs) : Succeeded(xhrs[i]))
        /\ (\E i \in 1..Len(xhrs) : Failed(xhrs[i])) => isError

\* three files, the first answered 500 and the other two 200
OneOfThreeFailed ==
    /\ Len(xhrs) = 3
    /\ Done(xhrs[1]) /\ xhrs[1].status = 500
    /\ Succeeded(xhrs[2])
    /\ Succeeded(xhrs[3])

\* C2: a failed completion leaves the requests, the progress and the status
\* of the other files as they are, in every interleaving of the callbacks;
\* at the end of a batch every file has the status of its own request, and
\* for A failed with 500, B and C answered 200: A's entry is the failure
\* message, B's and C's are 'Uploaded', uploadSuccess and isError are true.
FailureIsolation ==
    /\ [][FailureIsIsolated]_vars
    /\ [](BatchOutcome)
    /\ [](OneOfThreeFailed =>
             /\ fileStatus[xhrs[1].file.name] = FailureText(500)
             /\ fileStatus[xhrs[2].file.name] = "Uploaded"
             /\ fileStatus[xhrs[3].file.name] = "Uploaded"
             /\ uploadSuccess
             /\ isError)

\* C2, reached: the batch of three has ended, A failed last.
FailureIsolationWitness ==
    /\ OneOfThreeFailed
    /\ lastOp.op = "readystatechange"
    /\ lastOp.xhr = 1

\* a listener of a request sent before the last resetUploader has run
LateCallback ==
    /\ lastOp'.op \in {"progress", "readystatechange"}
    /\ xhrs[lastOp'.xhr].gen < gen

\* C3: a callback of a request sent before resetUploader, running after it,
\* is discarded: it adds no entry to fileProgress or fileStatus and does not
\* set uploadSuccess.
ResetIsolates ==
    [][LateCallback =>
          /\ DOMAIN fileProgress' \subseteq DOMAIN fileProgress
          /\ DOMAIN fileStatus' \subseteq DOMAIN fileStatus
          /\ (uploadSuccess' => uploadSuccess)]_vars

\* C4: resetUploader has no precondition, and the state right after it has
\* empty fileProgress and fileStatus, no uploadError and no uploadSuccess.
ResetClears ==
    /\ ENABLED resetUploader
    /\ lastOp.op = "reset" =>
           /\ fileProgress = EmptyObject
           /\ fileStatus = EmptyObject
           /\ uploadError = NULL
           /\ uploadSuccess = FALSE

\* C4, reached: resetUploader has run with one request finished and another
\* in flight.
ResetClearsWitness ==
    /\ lastOp.op = "reset"
    /\ \E i, j \in 1..Len(xhrs) : Done(xhrs[i]) /\ InFlight(xhrs[j])

\* C5: uploadSuccess, once true, stays true in every step but resetUploader.
StickySuccess ==
    [][(uploadSuccess /\ lastOp'.op # "reset") => uploadSuccess']_vars

\* C5, reached: a request has failed after another had succeeded.
StickySuccessWitness ==
    /\ uploadSuccess
    /\ lastOp.op = "readystatechange"
    /\ Failed(xhrs[lastOp.xhr])

\* the requests sent by the last step
Sent == SubSeq(xhrs', Len(xhrs) + 1, Len(xhrs'))

\* C6: a file larger than maxFileBytes is never sent, and the selection
\* leaves the size message under its name, whatever its content type.
SizeValidationIsTotal ==
    [][lastOp'.op = "select" =>
          \A i \in 1..Len(lastOp'.files) :
              LET f == lastOp'.files[i]
              IN  ExceedsLimit(f) =>
                      /\ \A k \in 1..Len(Sent) : Sent[k].file # f
                      /\ f.name \in DOMAIN fileStatus'
                      /\ fileStatus'[f.name] = SizeLimitText]_vars

\* C7: a file whose type is not among the accepted types is rejected before
\* any request of the selection is sent, and the selection leaves under its
\* name the message that lists the accepted types, joined with ", ".
TypeGating ==
    [][lastOp'.op = "select" =>
          \A i \in 1..Len(lastOp'.files) :
              LET f == lastOp'.files[i]
              IN  NotAccepted(f) =>
                      /\ xhrs' = xhrs
                      /\ f.name \in DOMAIN fileStatus'
                      /\ fileStatus'[f.name] = AcceptedTypesText]_vars

\* C7, reached: with png and jpeg accepted, a selection holding a gif of 6 MB
\* and a valid file has been rejected.
TypeGatingWitness ==
    /\ acceptedFileTypes.items = <<"image/png", "image/jpeg">>
    /\ lastOp.op = "select"
    /\ \E i, j \in 1..Len(lastOp.files) :
           /\ NotAccepted(lastOp.files[i]) /\ ExceedsLimit(lastOp.files[i])
           /\ ~Invalid(lastOp.files[j])
           /\ lastOp.files[i].name \in DOMAIN fileStatus
           /\ fileStatus[lastOp.files[i].name] = AcceptedTypesText

\* no list of accepted types: absent, or empty
NoAcceptedTypes == acceptedFileTypes.null \/ Len(acceptedFileTypes.items) = 0

\* C8: without accepted types every content type passes, so a selection of
\* files within the size limit is sent, file by file.
NoTypesNoGating ==
    [][(/\ lastOp'.op = "select"
        /\ NoAcceptedTypes
        /\ \A i \in 1..Len(lastOp'.files) : ~ExceedsLimit(lastOp'.files[i])) =>
          /\ Len(Sent) = Len(lastOp'.files)
          /\ \A k \in 1..Len(Sent) : Sent[k].file = lastOp'.files[k]]_vars

\* round(100 * loaded / total), a half rounded up as Math.round rounds
RoundedPercent(loaded, total) == (200 * loaded + total) \div (2 * total)

\* a progress event with a computable length has been delivered
ProgressStep == lastOp'.op = "progress" /\ lastOp'.event.lengthComputable

\* the progress event leaves the entry of every other file as it was
ProgressFrame ==
    LET n == xhrs[lastOp'.xhr].file.name
    IN  /\ DOMAIN fileProgress' = DOMAIN fileProgress \cup {n}
        /\ \A m \in DOMAIN fileProgress \ {n} : fileProgress'[m] = fileProgress[m]

\* C9: a progress event with a computable length sets the entry of its file
\* to round(100 * loaded / total), whatever the other files are at, and
\* leaves the entries of the other files as they were; 50/200, 150/200 and
\* 200/200 give 25, 75 and 100.
PerFilePercent ==
    [][ProgressStep =>
          LET e == lastOp'.event
              p == fileProgress'[xhrs[lastOp'.xhr].file.name]
          IN  /\ ProgressFrame
              /\ p = RoundedPercent(e.loaded, e.total)
              /\ (e.loaded = 50  /\ e.total = 200) => p = 25
              /\ (e.loaded = 150 /\ e.total = 200) => p = 75
              /\ (e.loaded = 200 /\ e.total = 200) => p = 100]_vars

\* C10: an accepted selection of N files has sent N requests when the
\* handler returns, in the order of the selection, all of them in flight
\* and none waiting for another; the earlier requests are as they were.
ConcurrentDispatch ==
    [][(lastOp'.op = "select" /\ ~SomeInvalid(lastOp'.files)) =>
          /\ Len(Sent) = Len(lastOp'.files)
          /\ \A k \in 1..Len(Sent) :
                 /\ Sent[k].file = lastOp'.files[k]
                 /\ Sent[k].readyState = 1
          /\ SubSeq(xhrs', 1, Len(xhrs)) = xhrs]_vars

\* C10, reached: a selection of two files has sent two requests, both in
\* flight, b.png before a.png.
ConcurrentDispatchWitness ==
    /\ lastOp.op = "select"
    /\ Len(lastOp.files) = 2
    /\ Len(xhrs) = 2
    /\ xhrs[1].file.name = "b.png" /\ xhrs[2].file.name = "a.png"
    /\ InFlight(xhrs[1]) /\ InFlight(xhrs[2])

\* a status that is not 'Uploaded': a validation or a failure message
IsFailedStatus(f) == f \in DOMAIN fileStatus /\ fileStatus[f] # "Uploaded"

\* the entry of f is the same before and after the step
KeepsStatus(f) == f \in DOMAIN fileStatus' /\ fileStatus'[f] = fileStatus[f]

\* C11: a status that is a failure stays as it is in every step but
\* resetUploader: no listener and no later selection changes or removes it.
FailedIsTerminal ==
    [][\A f \in DOMAIN fileStatus :
          (IsFailedStatus(f) /\ lastOp'.op # "reset") => KeepsStatus(f)]_vars

\* the step is a selection that is rejected
RejectingStep == lastOp'.op = "select" /\ SomeInvalid(lastOp'.files)

\* the step is the end of a request for a file named f
CompletionOf(f) ==
    /\ lastOp'.op = "readystatechange"
    /\ xhrs[lastOp'.xhr].file.name = f
    /\ Done(xhrs'[lastOp'.xhr])

\* C11, amended: a status that is a failure stays as it is until
\* resetUploader, a rejected selection (which replaces the whole status
\* object by its own messages) or the end of another request for a file of
\* the same name (which writes its own outcome); no progress event, no
\* accepted selection and no request of another file changes it.
FailedIsTerminalUnless ==
    [][\A f \in DOMAIN fileStatus :
          (IsFailedStatus(f) /\ lastOp'.op # "reset") =>
              \/ KeepsStatus(f)
              \/ /\ RejectingStep
                 /\ \A m \in DOMAIN fileStatus' :
                        \E i \in 1..Len(lastOp'.files) :
                            /\ lastOp'.files[i].name = m
                            /\ fileStatus'[m] \in MessagesOf(lastOp'.files[i])
              \/ /\ CompletionOf(f)
                 /\ fileStatus'[f] = Outcome(xhrs'[lastOp'.xhr])]_vars

\* C11, reached: the failure of one file is still there after the request
\* of another file has succeeded.
FailedIsTerminalWitness ==
    /\ lastOp.op = "readystatechange"
    /\ Succeeded(xhrs[lastOp.xhr])
    /\ \E f \in DOMAIN fileStatus :
           f # xhrs[lastOp.xhr].file.name /\ IsFailedStatus(f)

\* the step is a selection, not empty, that is accepted
AcceptingStep ==
    /\ lastOp'.op = "select"
    /\ Len(lastOp'.files) > 0
    /\ ~SomeInvalid(lastOp'.files)

\* C12: right after an accepted selection fileProgress holds the names of
\* the selected files and no other, each at 0, and fileStatus holds nothing
\* of an earlier selection, with or without a resetUploader in between.
BatchStartsEmpty ==
    [][AcceptingStep =>
          /\ DOMAIN fileProgress' =
                 {lastOp'.files[i].name : i \in 1..Len(lastOp'.files)}
          /\ \A n \in DOMAIN fileProgress' : fileProgress'[n] = 0
          /\ DOMAIN fileStatus' = {}]_vars

\* the requests of the batch a.png, b.png have both ended with 200
BothUploaded ==
    /\ Len(xhrs) = 2
    /\ {xhrs[1].file.name, xhrs[2].file.name} = {"a.png", "b.png"}
    /\ Succeeded(xhrs[1])
    /\ Succeeded(xhrs[2])

\* C13: once a.png and b.png, selected together, have both been uploaded,
\* uploadSuccess is true and fileProgress is {a.png: 100, b.png: 100}.
CompletedBatchShows100 ==
    BothUploaded =>
        /\ uploadSuccess
        /\ DOMAIN fileProgress = {"a.png", "b.png"}
        /\ fileProgress["a.png"] = 100
        /\ fileProgress["b.png"] = 100

\* the step is the end of a request with a status other than 200
FailingStep ==
    /\ lastOp'.op = "readystatechange"
    /\ Done(xhrs'[lastOp'.xhr])
    /\ xhrs'[lastOp'.xhr].status # 200

\* C14: the end of a request with a status other than 200 (another 2xx, an
\* error status, or no response at all) leaves under the name of its file
\* the failure message with the status text of the response, empty without
\* a response, and leaves uploadSuccess as it was.
FailureRecorded ==
    [][FailingStep =>
          LET x == xhrs'[lastOp'.xhr]
          IN  /\ x.file.name \in DOMAIN fileStatus'
              /\ fileStatus'[x.file.name] = FailureText(x.status)
              /\ uploadSuccess' = uploadSuccess]_vars

\* C14, reached: a request answered 201 has been recorded as failed after
\* another request had succeeded.
FailureRecordedWitness ==
    /\ lastOp.op = "readystatechange"
    /\ Done(xhrs[lastOp.xhr])
    /\ xhrs[lastOp.xhr].status = 201
    /\ fileStatus[xhrs[lastOp.xhr].file.name] = FailureText(201)
    /\ uploadSuccess

\* fileStatus has an entry 'Uploaded'
SomeUploaded == \E f \in DOMAIN fileStatus : fileStatus[f] = "Uploaded"

\* C15: in every state uploadSuccess is true exactly if fileStatus has an
\* entry 'Uploaded'.
SuccessAgreesWithStatus == uploadSuccess = SomeUploaded

\* the step is the end of a request with status 200
SucceedingStep ==
    /\ lastOp'.op = "readystatechange"
    /\ Done(xhrs'[lastOp'.xhr])
    /\ xhrs'[lastOp'.xhr].status = 200

\* C15, amended: an entry 'Uploaded' implies uploadSuccess, and
\* uploadSuccess is true exactly if a request has ended with 200 since the
\* last resetUploader: resetUploader makes it false, the end of a request
\* with 200 makes it true, and every other step leaves it as it is (also a
\* step that replaces or overwrites the entry 'Uploaded').
SuccessFollowsCompletions ==
    /\ [](SomeUploaded => uploadSuccess)
    /\ [][uploadSuccess' =
             IF lastOp'.op = "reset" THEN FALSE
             ELSE uploadSuccess \/ SucceedingStep]_vars

\* C15, reached: uploadSuccess is true and no entry is 'Uploaded', the
\* failure of a second request for the same file having overwritten it.
SuccessFollowsCompletionsWitness ==
    /\ uploadSuccess
    /\ ~SomeUploaded
    /\ lastOp.op = "readystatechange"
    /\ \E i \in 1..Len(xhrs) :
           /\ i # lastOp.xhr
           /\ Succeeded(xhrs[i])
           /\ xhrs[i].file.name = xhrs[lastOp.xhr].file.name

\* the state of the component, without the requests
ComponentState == <<fileProgress, fileStatus, uploadError, uploadSuccess>>

\* A readystatechange event comes to a request that has not ended, and
\* changes the state of the component only if it ends the request.
AppliedOnce ==
    lastOp'.op = "readystatechange" =>
        /\ ~Done(xhrs[lastOp'.xhr])
        /\ ~Done(xhrs'[lastOp'.xhr]) => ComponentState' = ComponentState

\* every file sent has an entry in fileStatus
AllRecorded ==
    \A i \in 1..Len(xhrs) : xhrs[i].file.name \in DOMAIN fileStatus

\* C16: the readystatechange listener of a request changes the state once,
\* at the end of the request and not before; and if the browser delivers
\* the end of every request and resetUploader is not called, a state comes
\* in which every file sent has an entry in fileStatus.
CompletionOnceAndEventually ==
    /\ [][AppliedOnce]_vars
    /\ (Len(xhrs) > 0) ~> AllRecorded

\* C16, amended: as C16, the state with an entry for every file sent coming
\* if, besides, no selection is rejected.
CompletionOnceAndEventuallyUnless ==
    /\ [][AppliedOnce]_vars
    /\ (Len(xhrs) > 0) ~> (AllRecorded \/ replaced)

\* C16, reached: two files were sent, the second has just ended, and both
\* have their entry.
CompletionOnceAndEventuallyWitness ==
    /\ Len(xhrs) = 2
    /\ xhrs[1].file.name # xhrs[2].file.name
    /\ Done(xhrs[1]) /\ Done(xhrs[2])
    /\ lastOp.op = "readystatechange"
    /\ AllRecorded

\* C17: an accepted selection of k files sends k requests, the k-th for the
\* k-th file, also for files of one name; and no other step (a progress
\* event, the end of a request with any status, resetUploader, a rejected
\* selection) sends or drops a request.
OneDispatchPerFile ==
    [][IF lastOp'.op = "select" /\ ~SomeInvalid(lastOp'.files)
       THEN /\ Len(xhrs') = Len(xhrs) + Len(lastOp'.files)
            /\ \A k \in 1..Len(lastOp'.files) :
                   xhrs'[Len(xhrs) + k].file = lastOp'.files[k]
       ELSE /\ Len(xhrs') = Len(xhrs)
            /\ \A k \in 1..Len(xhrs) : xhrs'[k].file = xhrs[k].file]_vars

\* C17, reached: the two files named a.png were selected together and a
\* request is out for each of them.
OneDispatchPerFileWitness ==
    /\ lastOp.op = "select"
    /\ Len(lastOp.files) = 2
    /\ Len(xhrs) = 2
    /\ xhrs[1].file.name = xhrs[2].file.name
    /\ xhrs[1].file # xhrs[2].file

\* the bytes sent so far of the requests of call c among the first n
RECURSIVE BytesSent(_, _)
BytesSent(c, n) ==
    IF n = 0 THEN 0
    ELSE (IF xhrs[n].call = c THEN xhrs[n].loaded ELSE 0) + BytesSent(c, n - 1)

\* C18: in the component with one shared percent, after a progress event
\* with a computable length uploadProgress is round(100 * B / T), B the
\* bytes sent so far over all the files of the batch and T the sum of their
\* sizes, and so lies in 0..100.
AggregatePercent ==
    (Len(calls) > 0 /\ lastOp.op = "progress" /\ lastOp.event.lengthComputable) =>
        LET c == xhrs[lastOp.xhr].call
        IN  /\ uploadProgress = RoundedPercent(BytesSent(c, Len(xhrs)),
                                               calls[c].totalSize)
            /\ uploadProgress \in 0..100

\* the one message a rejected selection leaves for the invalid file f
MessageOf(f) == IF NotAccepted(f) THEN AcceptedTypesText ELSE SizeLimitText

\* C19: a selection with an invalid file replaces fileStatus by the map of
\* the invalid files' messages: an entry for the name of every invalid
\* file, the type message if the file fails both tests, no entry for
\* another name, whatever fileStatus held before; fileProgress and
\* uploadSuccess are as they were.
RejectedSelectionFrame ==
    [][(lastOp'.op = "select" /\ SomeInvalid(lastOp'.files)) =>
          LET files == lastOp'.files
              bad == {i \in 1..Len(files) : Invalid(files[i])}
          IN  /\ DOMAIN fileStatus' = {files[i].name : i \in bad}
              /\ \A i \in bad :
                     (\A j \in bad : j > i => files[j].name # files[i].name) =>
                         fileStatus'[files[i].name] = MessageOf(files[i])
              /\ fileProgress' = fileProgress
              /\ uploadSuccess' = uploadSuccess]_vars

\* C19, reached: after an upload has succeeded and without a resetUploader
\* since, a selection of a valid file and a file that fails both tests has
\* been rejected; the status of the uploaded file is gone, its percent and
\* the success flag are kept.
RejectedSelectionFrameWitness ==
    /\ lastOp.op = "select"
    /\ gen = 0
    /\ uploadSuccess
    /\ \E i, j \in 1..Len(lastOp.files) :
           /\ NotAccepted(lastOp.files[i]) /\ ExceedsLimit(lastOp.files[i])
           /\ ~Invalid(lastOp.files[j])
           /\ DOMAIN fileStatus = {lastOp.files[i].name}
           /\ fileStatus[lastOp.files[i].name] = AcceptedTypesText
    /\ \E k \in 1..Len(xhrs) :
           /\ Succeeded(xhrs[k])
           /\ xhrs[k].file.name \notin DOMAIN fileStatus
           /\ xhrs[k].file.name \in DOMAIN fileProgress

\* the requests call c of fileUploadHandler has sent, in their order
RequestsOf(c) == SelectSeq(xhrs, LAMBDA x : x.call = c)

\* the request has ended with a response of the server, whatever its status
Responded(x) == Done(x) /\ x.status # 0

\* The requests of call c are for the first files of its selection, in
\* their order and beginning with the first; every request but the last
\* has ended with a response, so none follows a request in flight or one
\* ended by a network fault; and a request ended with a response, 200 or
\* not, is followed by the request of the next file if there is one.
CallInOrder(c) ==
    LET files == calls[c].files
        R == RequestsOf(c)
    IN  /\ Len(R) <= Len(files)
        /\ Len(files) > 0 => Len(R) > 0
        /\ \A k \in 1..Len(R) : R[k].file = files[k]
        /\ \A k \in 1..(Len(R) - 1) : Responded(R[k])
        /\ (Len(R) > 0 /\ Responded(R[Len(R)])) => Len(R) = Len(files)

\* C20: the request of a file is sent only after the request of the file
\* before it has ended with a response, with 200 or not, and is never sent
\* after that one was ended by a network fault; and at most one request is
\* in flight at any time.
SequentialOneInFlight ==
    /\ \A c \in 1..Len(calls) : CallInOrder(c)
    /\ Cardinality({i \in 1..Len(xhrs) : InFlight(xhrs[i])}) <= 1

\* C20, amended: as C20, at most one request of each call of
\* fileUploadHandler being in flight at any time.
SequentialPerCall ==
    \A c \in 1..Len(calls) :
        /\ CallInOrder(c)
        /\ Cardinality({i \in 1..Len(xhrs) :
                           xhrs[i].call = c /\ InFlight(xhrs[i])}) <= 1

\* C20, reached: two calls of two files each overlap; the first file of
\* one was answered 500 and its second file is in flight, the first file of
\* the other was ended by a network fault and its second file was not sent.
SequentialPerCallWitness ==
    /\ Len(calls) = 2
    /\ \E c, d \in 1..Len(calls) :
           /\ Len(calls[c].files) = 2 /\ Len(calls[d].files) = 2
           /\ Len(RequestsOf(c)) = 2
           /\ RequestsOf(c)[1].status = 500
           /\ InFlight(RequestsOf(c)[2])
           /\ Len(RequestsOf(d)) = 1
           /\ Done(RequestsOf(d)[1]) /\ RequestsOf(d)[1].status = 0
           /\ calls[d].state = "rejected"

====
